---- MODULE Spec2Model ----
(***************************************************************************)
(* Coordination core of the media-processing stack:                        *)
(*   - the job workers (workers/asr, workers/diarization, workers/tts):    *)
(*     priority queue scan, claim, terminal write;                         *)
(*   - the rate limiter service (infrastructure/redis-ratelimiter);        *)
(*   - the DNS reconciler (infrastructure/cloudflare-sync).                *)
(* Each subsystem has its own variables and its own specification; a       *)
(* specification leaves the other subsystems' variables untouched.         *)
(***************************************************************************)
EXTENDS Integers, Sequences, FiniteSets, TLC

(***************************************************************************)
(*                          JOB WORKERS                                    *)
(***************************************************************************)

\* Bound: how many duplicate deliveries (a second push of an id that is
\* already enqueued, as in the claim-idempotence scenario) producers make.
MaxRedeliveries == 1

Workers == {"w1", "w2"}
JobIds == {"A", "B", "C"}
\* The ids producers use while workers race for them.
RaceJobs == {"A", "B"}
NoJob == "none"
NoWorker == "none"

Priorities == <<"URGENT", "HIGH", "NORMAL", "LOW">>
PrioritySet == {Priorities[i] : i \in 1..Len(Priorities)}

\* The queue keys an ASR worker scans, in scan order.
AsrQueues ==
    << <<"TRANSCRIPTION", "URGENT">>, <<"TRANSCRIPTION", "HIGH">>,
       <<"TRANSCRIPTION", "NORMAL">>, <<"TRANSCRIPTION", "LOW">> >>

\* The queues of one job type, in the order of the priorities loop.
TypeQueues(t) == << <<t, "URGENT">>, <<t, "HIGH">>, <<t, "NORMAL">>, <<t, "LOW">> >>

\* The queue keys a diarization worker and a TTS worker scan, in scan order.
DiarizationQueues ==
    TypeQueues("DIARIZATION") \o TypeQueues("EMBEDDING_EXTRACTION")
        \o TypeQueues("SPEAKER_CLUSTERING")
TtsQueues == TypeQueues("TTS_SYNTHESIS") \o TypeQueues("TTS_TRAINING")

QueueKeys ==
    {AsrQueues[i] : i \in 1..Len(AsrQueues)}
        \cup {DiarizationQueues[i] : i \in 1..Len(DiarizationQueues)}
        \cup {TtsQueues[i] : i \in 1..Len(TtsQueues)}

Statuses == {"QUEUED", "RUNNING", "COMPLETED", "FAILED", "CANCELLED"}

\* A row of the "Job" table; status "NONE" stands for "no row with this id".
NoRow ==
    [status |-> "NONE", type |-> "NONE", priority |-> "NONE",
     workerId |-> NoWorker, startedAt |-> FALSE, completedAt |-> FALSE,
     progress |-> 0, outputData |-> FALSE, errorMessage |-> FALSE]

VARIABLES
    queues,      \* Redis lists: queue key -> sequence of job ids, head = left end
    jobs,        \* "Job" table: job id -> row
    redelivered, \* number of duplicate deliveries made so far
    pc,          \* worker -> position in run_worker / get_next_job
    qi,          \* worker -> index of the queue the scan of get_next_job is at
    cur,         \* worker -> job id popped / being processed
    claimCount,  \* history: job id -> number of claim UPDATEs executed for it
    claimLog,    \* history: the jobs of enqLog in the order they were claimed
    enqLog,      \* history: <<job id, priority>> of the jobs enqueued before the
                 \* workers started, in the order of enqueueing
    started,     \* whether the workers have been started
    errors,      \* number of relational-store statements that raised so far
    kind         \* the worker program that runs: "asr", "diarization" or "tts"

wvars == <<queues, jobs, redelivered, pc, qi, cur, claimCount, claimLog, enqLog, started,
           errors, kind>>

VARIABLES
    clock,       \* current time in ms (time.time() * 1000, and the store's clock)
    rlimit,      \* the "limit" of the requests (constant over a run)
    rwindow,     \* the "windowMs" of the requests (constant over a run)
    serial,      \* TRUE: a call starts only after the previous one has returned
    calls,       \* number of calls started so far (the nonce of the next call)
    zset,        \* sorted set at ratelimit:<id>: set of <<score, nonce>> members
    zexp,        \* expiry time of the sorted-set key; NoExpiry when it has none
    fw,          \* fixed-window counters: bucket index -> [value, exp], existing keys only
    cpc,         \* client -> position of its call in ratelimit / _sliding_window
    cnow,        \* client -> "now" read by its call
    ccount,      \* client -> "count" read by its call's first pipeline
    cnonce,      \* client -> the nonce (uuid) of its call
    resp,        \* the response sent last
    hits,        \* history: every member ever added to the sorted set
    allowed,     \* history: the members whose call returned allow = true (fixed
                 \* window: <<now, number of the allowed call>>)
    fwHist,      \* history: bucket index -> [calls, allows] answered for that bucket
    hz,          \* the response GET /healthz sent last
    req,         \* history: the body of the last request answered before its
                 \* algorithm branch was reached
    ralgo,       \* the "algo" of the requests when it is constant over a run
                 \* ("sliding" or "fixed"); "any" when the requests differ in it
    others       \* the sorted sets of other ids: store key -> expiry time

rvars == <<clock, rlimit, rwindow, serial, calls, zset, zexp, fw, cpc, cnow, ccount,
           cnonce, resp, hits, allowed, fwHist, hz, req, ralgo, others>>

VARIABLES
    doc,         \* the Traefik config file /etc/traefik/config.yml
    tokenSet,    \* whether CLOUDFLARE_API_TOKEN is set
    baseSet,     \* whether DOMAIN_BASE is set
    zone,        \* the provider's DNS records of the zone
    fpFile,      \* content of /tmp/traefik_config_checksum; NoFile when absent
    health,      \* /tmp/cloudflare_sync_health: the tick that wrote it last, 0 when absent
    dpc,         \* position of the check: lightweight_check.main / sync_cloudflare.main
    hostnames,   \* sync_cloudflare: the extracted hostname list
    snapshot,    \* sync_dns_records: existing_records
    success,     \* sync_dns_records: success
    processed,   \* sync_dns_records: processed_records
    hi,          \* sync_dns_records: index of the hostname loop
    pi,          \* sync_dns_records: index of the orphan loop
    rc,          \* return code of the sync_cloudflare.py subprocess
    ticks,       \* number of ticks started
    edits,       \* number of edits made to the config file
    ranSync,     \* history: sync_dns_records was called in the current tick
    recordFailed, \* history: a per-record provider call failed in the current tick
    apiCalls,    \* history: the create/update/delete calls issued in the current
                 \* tick, in order, as <<operation, record name>>
    tickLog,     \* history: the outcome of check_ssh_connectivity in the current
                 \* tick and the number of run_full_sync calls it made
    cleanTick    \* history: the tick of the last pass, if sync_dns_records
                 \* returned True in it and the config file has not been edited
                 \* since the pass read it; 0 otherwise

dvars == <<doc, tokenSet, baseSet, zone, fpFile, health, dpc, hostnames, snapshot,
           success, processed, hi, pi, rc, ticks, edits, ranSync, recordFailed,
           apiCalls, tickLog, cleanTick>>

vars == <<wvars, rvars, dvars>>

\* What a step of one subsystem leaves untouched.
othersW == <<rvars, dvars, kind>>
othersR == <<wvars, dvars, req, ralgo, others>>
othersD == <<wvars, rvars, cleanTick>>

----------------------------------------------------------------------------
\* Redis list primitives.

\* LPUSH key id
LPush(q, id) == <<id>> \o q

\* The element BRPOP key returns: the one at the right end.
RPopValue(q) == q[Len(q)]

\* The list BRPOP leaves behind.
RPopRest(q) == SubSeq(q, 1, Len(q) - 1)

\* Whether an id is in some queue.
InSomeQueue(j) ==
    \E k \in QueueKeys : \E i \in 1..Len(queues[k]) : queues[k][i] = j

----------------------------------------------------------------------------
\* Producer and operator steps (not part of the worker sources).

\* Enqueue(job): insert the Job{QUEUED} row and push its id on queue:<type>:<priority>.
Enqueue(j, p) ==
    /\ jobs[j].status = "NONE"
    /\ jobs' = [jobs EXCEPT ![j] =
                  [NoRow EXCEPT !.status = "QUEUED", !.type = "TRANSCRIPTION",
                                !.priority = p]]
    /\ queues' = [queues EXCEPT ![<<"TRANSCRIPTION", p>>] = LPush(@, j)]
    /\ enqLog' = IF started THEN enqLog ELSE Append(enqLog, <<j, p>>)
    /\ UNCHANGED <<redelivered, pc, qi, cur, claimCount, claimLog, started, errors, othersW>>

\* Enqueue(job) for a job of type t.
EnqueueType(j, t, p) ==
    /\ jobs[j].status = "NONE"
    /\ jobs' = [jobs EXCEPT ![j] =
                  [NoRow EXCEPT !.status = "QUEUED", !.type = t, !.priority = p]]
    /\ queues' = [queues EXCEPT ![<<t, p>>] = LPush(@, j)]
    /\ enqLog' = IF started THEN enqLog ELSE Append(enqLog, <<j, p>>)
    /\ UNCHANGED <<redelivered, pc, qi, cur, claimCount, claimLog, started, errors, othersW>>

\* Duplicate delivery: the id of an existing row is pushed on its queue again.
Redeliver(j) ==
    /\ jobs[j].status # "NONE"
    /\ redelivered < MaxRedeliveries
    /\ queues' = [queues EXCEPT ![<<jobs[j].type, jobs[j].priority>>] = LPush(@, j)]
    /\ redelivered' = redelivered + 1
    /\ UNCHANGED <<jobs, pc, qi, cur, claimCount, claimLog, enqLog, started, errors, othersW>>

\* An operator marks a job CANCELLED.
Cancel(j) ==
    /\ jobs[j].status \in {"QUEUED", "RUNNING"}
    /\ jobs' = [jobs EXCEPT ![j].status = "CANCELLED"]
    /\ UNCHANGED <<queues, redelivered, pc, qi, cur, claimCount, claimLog, enqLog, started, errors, othersW>>

\* An id is pushed whose row does not exist (never inserted, or deleted).
StalePush(j, p) ==
    /\ jobs[j].status = "NONE"
    /\ redelivered < MaxRedeliveries
    /\ queues' = [queues EXCEPT ![<<"TRANSCRIPTION", p>>] = LPush(@, j)]
    /\ redelivered' = redelivered + 1
    /\ UNCHANGED <<jobs, pc, qi, cur, claimCount, claimLog, enqLog, started, errors, othersW>>

\* The id of a worker process that has exited.
GoneWorker == "gone"

\* A worker of an earlier run claimed the job and exited before its terminal
\* write: the row stays RUNNING.
Strand(j) ==
    /\ jobs[j].status = "QUEUED"
    /\ jobs' = [jobs EXCEPT ![j] =
                  [@ EXCEPT !.status = "RUNNING", !.startedAt = TRUE, !.workerId = GoneWorker]]
    /\ UNCHANGED <<queues, redelivered, pc, qi, cur, claimCount, claimLog, enqLog, started, errors, othersW>>

----------------------------------------------------------------------------
\* get_next_job

\* (a worker that scans the LOW queue first)
AsrQueuesLowFirst(w) ==
    << <<"TRANSCRIPTION", "LOW">>, <<"TRANSCRIPTION", "NORMAL">>,
       <<"TRANSCRIPTION", "HIGH">>, <<"TRANSCRIPTION", "URGENT">> >>

\* (a scan ordered by priority first and type second)
RECURSIVE ByPriority(_, _)
ByPriority(types, i) ==
    IF i > Len(Priorities) THEN <<>>
    ELSE [n \in 1..Len(types) |-> <<types[n], Priorities[i]>>] \o ByPriority(types, i + 1)

ScanPriorityFirst(w) ==
    CASE kind = "diarization" ->
           ByPriority(<<"DIARIZATION", "EMBEDDING_EXTRACTION", "SPEAKER_CLUSTERING">>, 1)
      [] kind = "tts" -> ByPriority(<<"TTS_SYNTHESIS", "TTS_TRAINING">>, 1)
      [] OTHER -> AsrQueues

\* The queue list a worker scans.
ScanOrder(w) ==
    CASE kind = "diarization" -> DiarizationQueues
      [] kind = "tts" -> TtsQueues
      [] OTHER -> AsrQueues

\* Where get_next_job goes after the queue at index i gave nothing to claim:
\* the next queue of the for loop, or (loop exhausted) return None, after which
\* run_worker sleeps and calls get_next_job again.
NextQueueIndex(w, i) == IF i < Len(ScanOrder(w)) THEN i + 1 ELSE 1

\* brpop(queue, 1) returns an id.
Pop(w) ==
    /\ started
    /\ pc[w] = "scan"
    /\ LET key == ScanOrder(w)[qi[w]] IN
         /\ Len(queues[key]) > 0
         /\ cur' = [cur EXCEPT ![w] = RPopValue(queues[key])]
         /\ queues' = [queues EXCEPT ![key] = RPopRest(@)]
    /\ pc' = [pc EXCEPT ![w] = "select"]
    /\ UNCHANGED <<jobs, redelivered, qi, claimCount, claimLog, enqLog, started, errors, othersW>>

\* brpop(queue, 1) times out on an empty queue.
PopTimeout(w) ==
    /\ started
    /\ pc[w] = "scan"
    /\ Len(queues[ScanOrder(w)[qi[w]]]) = 0
    /\ qi' = [qi EXCEPT ![w] = NextQueueIndex(w, @)]
    /\ UNCHANGED <<queues, jobs, redelivered, pc, cur, claimCount, claimLog, enqLog, started, errors, othersW>>

\* (a SELECT without the status filter)
SelectFindsAnyRow(j) == jobs[j].status # "NONE"

\* SELECT ... WHERE id = :job_id AND status = 'QUEUED'
SelectFinds(j) == jobs[j].status = "QUEUED"

Select(w) ==
    /\ pc[w] = "select"
    /\ IF SelectFinds(cur[w])
         THEN /\ pc' = [pc EXCEPT ![w] = "update"]
              /\ UNCHANGED <<qi, cur>>
         ELSE /\ pc' = [pc EXCEPT ![w] = "scan"]
              /\ qi' = [qi EXCEPT ![w] = NextQueueIndex(w, @)]
              /\ cur' = [cur EXCEPT ![w] = NoJob]
    /\ UNCHANGED <<queues, jobs, redelivered, claimCount, claimLog, enqLog, started, errors, othersW>>

\* The row UPDATE "Job" SET status = 'RUNNING', ... WHERE id = :job_id leaves.
ClaimedRow(row, w) ==
    [row EXCEPT !.status = "RUNNING", !.startedAt = TRUE, !.workerId = w]

\* The UPDATE, and get_next_job returning the job to run_worker.
Update(w) ==
    /\ pc[w] = "update"
    /\ jobs' = [jobs EXCEPT ![cur[w]] = ClaimedRow(@, w)]
    /\ claimCount' = [claimCount EXCEPT ![cur[w]] = @ + 1]
    /\ claimLog' = IF \E i \in 1..Len(enqLog) : enqLog[i][1] = cur[w]
                    THEN Append(claimLog, cur[w])
                    ELSE claimLog
    /\ pc' = [pc EXCEPT ![w] = "process"]
    /\ UNCHANGED <<queues, redelivered, qi, cur, enqLog, started, errors, othersW>>

----------------------------------------------------------------------------
\* run_worker

\* Whether run_worker of the program calls a stage adapter for a job type:
\* the ASR worker calls process_transcription_job without looking at the
\* type, the other two dispatch on job['type'].
HasAdapter(k, t) ==
    CASE k = "diarization" -> t = "DIARIZATION"
      [] k = "tts" -> t \in {"TTS_SYNTHESIS", "TTS_TRAINING"}
      [] OTHER -> TRUE

\* The else branch of the dispatch: result = {'message': "Job type ... not yet
\* implemented"}, and run_worker goes on to the COMPLETED write.
NotImplemented(w) ==
    /\ pc[w] = "process"
    /\ ~HasAdapter(kind, jobs[cur[w]].type)
    /\ pc' = [pc EXCEPT ![w] = "complete"]
    /\ UNCHANGED <<queues, jobs, redelivered, qi, cur, claimCount, claimLog, enqLog, started, errors, othersW>>

\* The stage adapter returns a result.
AdapterReturn(w) ==
    /\ pc[w] = "process"
    /\ HasAdapter(kind, jobs[cur[w]].type)
    /\ pc' = [pc EXCEPT ![w] = "complete"]
    /\ UNCHANGED <<queues, jobs, redelivered, qi, cur, claimCount, claimLog, enqLog, started, errors, othersW>>

\* The stage adapter raises.
AdapterRaise(w) ==
    /\ pc[w] = "process"
    /\ HasAdapter(kind, jobs[cur[w]].type)
    /\ pc' = [pc EXCEPT ![w] = "fail"]
    /\ UNCHANGED <<queues, jobs, redelivered, qi, cur, claimCount, claimLog, enqLog, started, errors, othersW>>

\* (a COMPLETED write that leaves progress as it is)
CompletedRowKeepsProgress(row, w) ==
    [row EXCEPT !.status = "COMPLETED", !.completedAt = TRUE, !.outputData = TRUE]

\* The row UPDATE "Job" SET status = 'COMPLETED', ... WHERE id = :job_id leaves.
CompletedRow(row, w) ==
    [row EXCEPT !.status = "COMPLETED", !.progress = 100, !.completedAt = TRUE,
                !.outputData = TRUE]

\* (a failure write that puts the row back to QUEUED)
FailedRowRetry(row, w) == [row EXCEPT !.status = "QUEUED"]

\* The row UPDATE "Job" SET status = 'FAILED', ... WHERE id = :job_id leaves.
FailedRow(row, w) ==
    [row EXCEPT !.status = "FAILED", !.errorMessage = TRUE, !.completedAt = TRUE]

\* Back to the top of the while loop: a new get_next_job.
Rescan(w) ==
    /\ pc' = [pc EXCEPT ![w] = "scan"]
    /\ qi' = [qi EXCEPT ![w] = 1]
    /\ cur' = [cur EXCEPT ![w] = NoJob]

Complete(w) ==
    /\ pc[w] = "complete"
    /\ jobs' = [jobs EXCEPT ![cur[w]] = CompletedRow(@, w)]
    /\ Rescan(w)
    /\ UNCHANGED <<queues, redelivered, claimCount, claimLog, enqLog, started, errors, othersW>>

Fail(w) ==
    /\ pc[w] = "fail"
    /\ jobs' = [jobs EXCEPT ![cur[w]] = FailedRow(@, w)]
    /\ Rescan(w)
    /\ UNCHANGED <<queues, redelivered, claimCount, claimLog, enqLog, started, errors, othersW>>

----------------------------------------------------------------------------
\* Statements on the relational store that raise.  Nothing in get_next_job
\* catches them; in run_worker the inner except clause catches what the
\* try body raises, and the outer except clause (log, sleep 5 s, next
\* iteration of the while loop) catches everything else.

\* Bound: how many statements raise in a run.
MaxStoreErrors == 1

StoreError ==
    /\ errors < MaxStoreErrors
    /\ errors' = errors + 1

\* The SELECT of get_next_job raises: the popped id is gone.
SelectRaises(w) ==
    /\ pc[w] = "select"
    /\ StoreError
    /\ Rescan(w)
    /\ UNCHANGED <<queues, jobs, redelivered, claimCount, claimLog, enqLog, started, othersW>>

\* The claim UPDATE (or its commit) raises: the row keeps its status.
UpdateRaises(w) ==
    /\ pc[w] = "update"
    /\ StoreError
    /\ Rescan(w)
    /\ UNCHANGED <<queues, jobs, redelivered, claimCount, claimLog, enqLog, started, othersW>>

\* The COMPLETED write raises inside the try body: the inner except clause
\* goes on to write FAILED.
CompleteRaises(w) ==
    /\ pc[w] = "complete"
    /\ StoreError
    /\ pc' = [pc EXCEPT ![w] = "fail"]
    /\ UNCHANGED <<queues, jobs, redelivered, qi, cur, claimCount, claimLog, enqLog, started,
                   othersW>>

\* The FAILED write raises inside the inner except clause: the outer except
\* clause takes over and the row is left as it is.
FailRaises(w) ==
    /\ pc[w] = "fail"
    /\ StoreError
    /\ Rescan(w)
    /\ UNCHANGED <<queues, jobs, redelivered, claimCount, claimLog, enqLog, started, othersW>>

(***************************************************************************)
(*                          RATE LIMITER                                   *)
(***************************************************************************)

\* Bounds of the rate limiter's runs: calls made, 1 ms clock ticks between two
\* long pauses, and long pauses.
MaxCalls == 3
MaxTicks == 2
MaxPauses == 1

\* asyncio.wait_for(..., timeout=2.0), in ms.
TimeoutMs == 2000
\* pexpire(key, window_ms + 60_000)
TtlPadMs == 60000

Clients == {"c1", "c2"}
\* The limit and windowMs values the requests carry.
Limits == {1, 2}
Windows == {1, 2}

NoExpiry == -1
NoResp == [status |-> 0, allow |-> FALSE, remaining |-> 0, reset |-> 0,
           retryAfter |-> 0, now |-> 0]

\* math.ceil(a / b) for b > 0
CeilDiv(a, b) == -((-a) \div b)

Max(a, b) == IF a >= b THEN a ELSE b

\* A key with a TTL is gone once the store's clock has passed its expiry time.
Expired(exp) == exp # NoExpiry /\ clock > exp

----------------------------------------------------------------------------
\* Time.

\* One millisecond passes.
Tick ==
    /\ clock % TtlPadMs < MaxTicks
    /\ clock' = clock + 1
    /\ UNCHANGED <<rlimit, rwindow, serial, calls, zset, zexp, fw, cpc, cnow, ccount,
                   cnonce, resp, hits, allowed, fwHist, hz, othersR>>

\* A long pause (a minute) passes.
Pause ==
    /\ clock \div TtlPadMs < MaxPauses
    /\ clock' = clock + TtlPadMs
    /\ UNCHANGED <<rlimit, rwindow, serial, calls, zset, zexp, fw, cpc, cnow, ccount,
                   cnonce, resp, hits, allowed, fwHist, hz, othersR>>

\* A client may issue a call: in serial use, only when no call is in flight.
MayStart(c) ==
    /\ cpc[c] = "idle"
    /\ calls < MaxCalls
    /\ serial => \A d \in Clients : cpc[d] = "idle"

\* The response goes back to the client; the call's locals are gone.
Respond(c, r) ==
    /\ resp' = r
    /\ cpc' = [cpc EXCEPT ![c] = "idle"]
    /\ cnow' = [cnow EXCEPT ![c] = 0]
    /\ ccount' = [ccount EXCEPT ![c] = 0]
    /\ cnonce' = [cnonce EXCEPT ![c] = 0]

----------------------------------------------------------------------------
\* _sliding_window

\* The sorted set as the store sees it now.
LiveZset == IF Expired(zexp) THEN {} ELSE zset
LiveZexp == IF Expired(zexp) THEN NoExpiry ELSE zexp

\* (a trim that keeps the entries one millisecond longer)
TrimmedLate(set, now, window) == {m \in set : ~(0 <= m[1] /\ m[1] <= now - window - 1)}

\* (a trim that already drops the entries one millisecond inside the window)
TrimmedEarly(set, now, window) == {m \in set : ~(0 <= m[1] /\ m[1] <= now - window + 1)}

\* zremrangebyscore(key, 0, now - window_ms): what stays.
Trimmed(set, now, window) == {m \in set : ~(0 <= m[1] /\ m[1] <= now - window)}

\* zrange(key, 0, 0, withscores=True): the lowest score, or none (-1).
OldestScore(set) ==
    IF set = {} THEN -1
    ELSE CHOOSE x \in {m[1] : m \in set} : \A m \in set : x <= m[1]

\* (a reset counted from the time of the call)
ResetFromNow(set, now, window) == now + window

\* reset_ms = now + window_ms; if oldest: reset_ms = int(oldest[0][1]) + window_ms
ResetMs(set, now, window) ==
    IF OldestScore(set) = -1 THEN now + window ELSE OldestScore(set) + window

\* max(0, math.ceil((reset_ms - now) / 1000))
RetryAfter(reset, now) == Max(0, CeilDiv(reset - now, 1000))

\* (a limiter that denies only above the limit)
OverLimitStrict(count, limit) == count > limit

\* Whether the count read by the first pipeline denies the call.
OverLimit(count, limit) == count >= limit

\* A step of a _sliding_window call can still run: wait_for has not cancelled it.
InTime(c) == clock - cnow[c] < TimeoutMs

\* POST /ratelimit, algo sliding: now = int(time.time() * 1000)
StartSliding(c) ==
    /\ MayStart(c)
    /\ calls' = calls + 1
    /\ cnonce' = [cnonce EXCEPT ![c] = calls + 1]
    /\ cnow' = [cnow EXCEPT ![c] = clock]
    /\ cpc' = [cpc EXCEPT ![c] = "trim"]
    /\ UNCHANGED <<clock, rlimit, rwindow, serial, zset, zexp, fw, ccount, resp, hits,
                   allowed, fwHist, hz, othersR>>

\* First pipeline: zremrangebyscore + zcard.
TrimCount(c) ==
    /\ cpc[c] = "trim"
    /\ InTime(c)
    /\ LET kept == Trimmed(LiveZset, cnow[c], rwindow) IN
         /\ zset' = kept
         /\ zexp' = IF kept = {} THEN NoExpiry ELSE LiveZexp
         /\ ccount' = [ccount EXCEPT ![c] = Cardinality(kept)]
         /\ cpc' = [cpc EXCEPT ![c] =
                      IF OverLimit(Cardinality(kept), rlimit) THEN "deny" ELSE "zadd"]
    /\ UNCHANGED <<clock, rlimit, rwindow, serial, calls, fw, cnow, cnonce, resp, hits,
                   allowed, fwHist, hz, othersR>>

\* count >= limit: read the oldest entry and answer allow = False.
Deny(c) ==
    /\ cpc[c] = "deny"
    /\ InTime(c)
    /\ LET reset == ResetMs(LiveZset, cnow[c], rwindow) IN
         Respond(c, [status |-> 200, allow |-> FALSE, remaining |-> 0,
                     reset |-> reset, retryAfter |-> RetryAfter(reset, cnow[c]),
                     now |-> cnow[c]])
    /\ UNCHANGED <<clock, rlimit, rwindow, serial, calls, zset, zexp, fw,
                   hits, allowed, fwHist, hz, othersR>>

\* (a key that is given no time to live)
KeyTtlNone(window) == 0

\* The time to live of the sorted-set key: window_ms + 60_000.
KeyTtl(window) == window + TtlPadMs

\* Second pipeline: zadd(key, {member: now}) + pexpire(key, window_ms + 60_000).
ZAdd(c) ==
    /\ cpc[c] = "zadd"
    /\ InTime(c)
    /\ zset' = LiveZset \cup {<<cnow[c], cnonce[c]>>}
    /\ zexp' = clock + KeyTtl(rwindow)
    /\ hits' = hits \cup {<<cnow[c], cnonce[c]>>}
    /\ cpc' = [cpc EXCEPT ![c] = "oldest"]
    /\ UNCHANGED <<clock, rlimit, rwindow, serial, calls, fw, cnow, ccount, cnonce,
                   resp, allowed, fwHist, hz, othersR>>

\* Read the oldest entry and answer allow = True.
Allow(c) ==
    /\ cpc[c] = "oldest"
    /\ InTime(c)
    /\ Respond(c, [status |-> 200, allow |-> TRUE,
                   remaining |-> Max(0, rlimit - (ccount[c] + 1)),
                   reset |-> ResetMs(LiveZset, cnow[c], rwindow),
                   retryAfter |-> 0, now |-> cnow[c]])
    /\ allowed' = allowed \cup {<<cnow[c], cnonce[c]>>}
    /\ UNCHANGED <<clock, rlimit, rwindow, serial, calls, zset, zexp, fw,
                   hits, fwHist, hz, othersR>>

\* asyncio.TimeoutError: the call is cancelled where it waits, 504 to the client.
Timeout(c) ==
    /\ cpc[c] \in {"trim", "deny", "zadd", "oldest"}
    /\ ~InTime(c)
    /\ Respond(c, [NoResp EXCEPT !.status = 504, !.now = cnow[c]])
    /\ UNCHANGED <<clock, rlimit, rwindow, serial, calls, zset, zexp, fw,
                   hits, allowed, fwHist, hz, othersR>>

----------------------------------------------------------------------------
\* ratelimit, algo fixed

\* now // window_ms
Bucket(now, window) == now \div window

\* (now // window_ms + 1) * window_ms
BucketEnd(now, window) == (Bucket(now, window) + 1) * window

\* The counter at ratelimit:fw:<id>:<bucket> as the store sees it now (0: no key).
LiveCounter(b) ==
    IF b \in DOMAIN fw /\ ~Expired(fw[b].exp) THEN fw[b].value ELSE 0

\* allow = value <= limit
FixedAllows(value, limit) == value <= limit

\* f with key b set to v.
Put(f, b, v) == [x \in DOMAIN f \cup {b} |-> IF x = b THEN v ELSE f[x]]

\* Store keys are sequences of tokens; a decimal digit is a token.
NAMESPACE == <<"ratelimit:">>

\* k(id_): f"{NAMESPACE}{id_}"
K(id_) == NAMESPACE \o id_

Digits == <<"0", "1", "2", "3", "4", "5", "6", "7", "8", "9">>

\* The decimal digits of a number, as an f-string writes it.
RECURSIVE DecStr(_)
DecStr(n) ==
    IF n < 10 THEN <<Digits[n + 1]>> ELSE DecStr(n \div 10) \o <<Digits[(n % 10) + 1]>>

\* k(f"fw:{id_}:{now // window_ms}")
FixedKey(id_, bucket) == K(<<"fw:">> \o id_ \o <<":">> \o DecStr(bucket))

\* The id of the calls whose sorted set is zset and whose counters are fw.
Id == <<"u1">>

\* Whether the sorted set of another id is stored at the key of a counter.
ZsetAt(key) == key \in DOMAIN others /\ ~Expired(others[key])

\* POST /ratelimit, algo fixed: now = int(time.time() * 1000), the key is built.
StartFixed(c) ==
    /\ MayStart(c)
    /\ rwindow # 0
    /\ calls' = calls + 1
    /\ cnow' = [cnow EXCEPT ![c] = clock]
    /\ cpc' = [cpc EXCEPT ![c] = "incr"]
    /\ UNCHANGED <<clock, rlimit, rwindow, serial, zset, zexp, fw, ccount, cnonce, resp,
                   hits, allowed, fwHist, hz, othersR>>

\* The pipeline incr(key) + pexpire(key, window_ms), and the response.
IncrRespond(c) ==
    /\ cpc[c] = "incr"
    /\ ~ZsetAt(FixedKey(Id, Bucket(cnow[c], rwindow)))
    /\ LET b == Bucket(cnow[c], rwindow)
           value == LiveCounter(b) + 1
           allow == FixedAllows(value, rlimit)
           old == IF b \in DOMAIN fwHist THEN fwHist[b] ELSE [calls |-> 0, allows |-> 0]
       IN
         /\ fw' = Put(fw, b, [value |-> value, exp |-> clock + rwindow])
         /\ Respond(c, [status |-> 200, allow |-> allow,
                        remaining |-> IF allow THEN Max(0, rlimit - value) ELSE 0,
                        reset |-> BucketEnd(cnow[c], rwindow),
                        retryAfter |-> IF allow THEN 0
                                       ELSE RetryAfter(BucketEnd(cnow[c], rwindow), cnow[c]),
                        now |-> cnow[c]])
         /\ fwHist' = Put(fwHist, b, [calls |-> old.calls + 1,
                                      allows |-> old.allows + (IF allow THEN 1 ELSE 0)])
         /\ allowed' = IF allow THEN allowed \cup {<<cnow[c], Cardinality(allowed) + 1>>}
                        ELSE allowed
    /\ UNCHANGED <<clock, rlimit, rwindow, serial, calls, zset, zexp,
                   hits, hz, othersR>>

\* The pipeline incr(key) + pexpire(key, window_ms) on a key that holds a
\* sorted set: INCR fails with WRONGTYPE, PEXPIRE is applied, execute()
\* raises ResponseError, which the handler does not catch: 500 to the client.
IncrWrongType(c) ==
    /\ cpc[c] = "incr"
    /\ LET key == FixedKey(Id, Bucket(cnow[c], rwindow)) IN
         /\ ZsetAt(key)
         /\ others' = Put(others, key, clock + rwindow)
    /\ Respond(c, [NoResp EXCEPT !.status = 500, !.now = cnow[c]])
    /\ UNCHANGED <<clock, rlimit, rwindow, serial, calls, zset, zexp, fw, hits, allowed,
                   fwHist, hz, req, ralgo, wvars, dvars>>

\* The ids of other callers: a plain one, and ones that spell the tail of a
\* fixed-window key of Id.
OtherIds == {<<"u2">>} \cup {<<"fw:">> \o Id \o <<":">> \o DecStr(b) : b \in 0..1}

\* POST /ratelimit, algo sliding, for another id o (the whole call in one
\* step).  On a key that holds a counter the first pipeline fails with
\* WRONGTYPE: 500.  Otherwise the call is denied (only when its set exists),
\* or allowed, and then zadd + pexpire write the sorted set at its key.
SlidingOther(c, o) ==
    /\ MayStart(c)
    /\ calls' = calls + 1
    /\ LET key == K(o)
           counter == \E b \in DOMAIN fw : FixedKey(Id, b) = key /\ LiveCounter(b) > 0
       IN IF counter
          THEN /\ Respond(c, [NoResp EXCEPT !.status = 500, !.now = clock])
               /\ UNCHANGED others
          ELSE \E allow \in BOOLEAN :
                 /\ ~allow => ZsetAt(key)
                 /\ others' = IF allow THEN Put(others, key, clock + KeyTtl(rwindow))
                               ELSE others
                 /\ Respond(c, [status |-> 200, allow |-> allow, remaining |-> 0,
                                reset |-> clock + rwindow, retryAfter |-> 0,
                                now |-> clock])
    /\ UNCHANGED <<clock, rlimit, rwindow, serial, zset, zexp, fw, hits, allowed,
                   fwHist, hz, req, ralgo, wvars, dvars>>

\* POST /ratelimit, algo fixed, windowMs = 0: now // window_ms raises
\* ZeroDivisionError, which the handler does not catch: 500 to the client.
FixedDivisionByZero(c) ==
    /\ MayStart(c)
    /\ rwindow = 0
    /\ calls' = calls + 1
    /\ Respond(c, [NoResp EXCEPT !.status = 500, !.now = clock])
    /\ UNCHANGED <<clock, rlimit, rwindow, serial, zset, zexp, fw, hits, allowed, fwHist,
                   hz, othersR>>

----------------------------------------------------------------------------
\* ratelimit: the request body and the checks made before the algorithm runs

\* JSON values of the fields id and algo: the key is absent, null, a string
\* (a sequence of tokens, " " being white space) or a number.
Absent == [t |-> "absent", v |-> <<>>]
Null == [t |-> "null", v |-> <<>>]
Str(s) == [t |-> "str", v |-> s]
Num(n) == [t |-> "int", v |-> <<n>>]

IdValues == {Absent, Null, Str(<<>>), Str(<<" ">>), Str(<<" ", "u1">>)}
AlgoValues == {Absent, Str(<<>>), Str(<<"sliding">>), Str(<<"FIXED">>), Str(<<"token">>),
               Num("1")}

\* The request bodies: text that is not JSON, a JSON array, or a JSON object
\* with valid limit and windowMs.
Bodies ==
    {[json |-> "malformed", id |-> Absent, algo |-> Absent],
     [json |-> "array", id |-> Absent, algo |-> Absent]}
    \cup {[json |-> "object", id |-> i, algo |-> a] : i \in IdValues, a \in AlgoValues}

NoReq == [json |-> "none", id |-> Absent, algo |-> Absent]

\* body.get(key, default)
Get(field, default) == IF field.t = "absent" THEN default ELSE field

\* str(x)
ToStr(x) ==
    CASE x.t = "str" -> x.v
      [] x.t = "null" -> <<"None">>
      [] OTHER -> x.v

\* s.strip()
RECURSIVE lstrip(_)
lstrip(s) == IF s # <<>> /\ Head(s) = " " THEN lstrip(Tail(s)) ELSE s

RECURSIVE rstrip(_)
rstrip(s) ==
    IF s # <<>> /\ s[Len(s)] = " " THEN rstrip(SubSeq(s, 1, Len(s) - 1)) ELSE s

strip(s) == rstrip(lstrip(s))

\* x or "sliding": None, "" and 0 are falsy.
Truthy(x) ==
    CASE x.t = "str" -> x.v # <<>>
      [] x.t = "int" -> x.v # <<"0">>
      [] OTHER -> FALSE

\* s.lower(), token by token.
RECURSIVE str_lower(_)
str_lower(s) ==
    IF s = <<>> THEN <<>>
    ELSE <<CASE Head(s) = "FIXED" -> "fixed"
             [] Head(s) = "SLIDING" -> "sliding"
             [] OTHER -> Head(s)>> \o str_lower(Tail(s))

\* What ratelimit does with a body before any store operation: the status
\* of the error response it sends, or the algorithm it runs.
Outcome(b) ==
    IF b.json = "malformed" THEN [status |-> 400, run |-> "none"]
    ELSE IF b.json # "object" THEN [status |-> 500, run |-> "none"]
    ELSE LET id_ == strip(ToStr(Get(b.id, Str(<<>>))))
             a == IF Truthy(Get(b.algo, Null)) THEN b.algo ELSE Str(<<"sliding">>)
         IN IF a.t # "str" THEN [status |-> 500, run |-> "none"]
            ELSE IF id_ = <<>> THEN [status |-> 400, run |-> "none"]
            ELSE IF str_lower(a.v) = <<"sliding">> THEN [status |-> 200, run |-> "sliding"]
            ELSE IF str_lower(a.v) = <<"fixed">> THEN [status |-> 200, run |-> "fixed"]
            ELSE [status |-> 400, run |-> "none"]

\* POST /ratelimit with a body that is answered before an algorithm runs:
\* HTTPException(400), or an exception nothing catches (500).
RejectRequest(c) ==
    /\ MayStart(c)
    /\ \E b \in Bodies :
         /\ Outcome(b).run = "none"
         /\ req' = b
         /\ Respond(c, [NoResp EXCEPT !.status = Outcome(b).status, !.now = clock])
    /\ calls' = calls + 1
    /\ UNCHANGED <<clock, rlimit, rwindow, serial, zset, zexp, fw, hits, allowed, fwHist,
                   hz, ralgo, others, wvars, dvars>>

----------------------------------------------------------------------------
\* healthz

NoHz == [status |-> 0, ok |-> FALSE, pinged |-> FALSE]

\* GET /healthz: ok = await r.ping(); return {"ok": bool(ok)}.  The ping
\* either returns True or raises (store unreachable); nothing catches the
\* exception, so the framework answers 500.
healthz ==
    /\ \E pong \in BOOLEAN :
         hz' = IF pong THEN [status |-> 200, ok |-> TRUE, pinged |-> TRUE]
               ELSE [status |-> 500, ok |-> FALSE, pinged |-> FALSE]
    /\ UNCHANGED <<clock, rlimit, rwindow, serial, calls, zset, zexp, fw, cpc, cnow, ccount,
                   cnonce, resp, hits, allowed, fwHist, othersR>>

(***************************************************************************)
(*                          DNS RECONCILER                                 *)
(***************************************************************************)

MaxPasses == 2    \* ticks of the lightweight check in a run
MaxEdits == 1     \* edits of the config file in a run

\* Hostnames are sequences of tokens; "A" is the only upper-case token.
DOMAIN_BASE == <<"base">>
DotBase == <<".">> \o DOMAIN_BASE

RECURSIVE lower(_)
lower(h) ==
    IF h = <<>> THEN <<>>
    ELSE <<IF Head(h) = "A" THEN "a" ELSE Head(h)>> \o lower(Tail(h))

endswith(s, suffix) ==
    /\ Len(s) >= Len(suffix)
    /\ SubSeq(s, Len(s) - Len(suffix) + 1, Len(s)) = suffix

ssh_hostname == lower(<<"ssh-3afb6505">> \o DotBase)

HostA == <<"a">> \o DotBase
HostAUpper == <<"A">> \o DotBase
HostB == <<"b">> \o DotBase
HostC == <<"c">> \o DotBase
HostD == <<"a", "-d">> \o DotBase
HostM == <<"m">> \o DotBase

\* A config file: whether it exists, whether it parses as YAML, and for each router the
\* hostnames inside the Host(`...`) patterns of its rule, in order.
DocEmpty == [exists |-> TRUE, valid |-> TRUE, routers |-> << <<>> >>]
DocAB == [exists |-> TRUE, valid |-> TRUE, routers |-> << <<HostA>>, <<HostB>> >>]
DocMixed == [exists |-> TRUE, valid |-> TRUE, routers |-> << <<HostAUpper, HostD>>, <<ssh_hostname>> >>]
DocBad == [exists |-> TRUE, valid |-> FALSE, routers |-> <<>>]
\* No file at the config path.
DocMissing == [exists |-> FALSE, valid |-> FALSE, routers |-> <<>>]
Docs == {DocEmpty, DocAB, DocMixed, DocBad, DocMissing}
\* Config files in which a hostname occurs twice: in the same letter case in
\* one rule, and in different letter case in two rules.
DocDup == [exists |-> TRUE, valid |-> TRUE, routers |-> << <<HostB, HostB>> >>]
DocDupCase == [exists |-> TRUE, valid |-> TRUE, routers |-> << <<HostA>>, <<HostAUpper>> >>]

RECURSIVE Flatten(_)
Flatten(ss) == IF ss = <<>> THEN <<>> ELSE Head(ss) \o Flatten(Tail(ss))

extract_hostnames(d) == Flatten(d.routers)

\* md5sum of the config file: a digest of its bytes.
TokenCode(t) ==
    CASE t = "a" -> 1 [] t = "A" -> 2 [] t = "b" -> 3 [] t = "c" -> 4
      [] t = "-d" -> 5 [] t = "." -> 6 [] t = "base" -> 7
      [] t = "ssh-3afb6505" -> 8 [] t = "m" -> 9 [] OTHER -> 10

RECURSIVE Digest(_, _)
Digest(s, acc) ==
    IF s = <<>> THEN acc
    ELSE Digest(Tail(s), (acc * 31 + TokenCode(Head(s))) % 65521)

RECURSIVE DigestAll(_, _)
DigestAll(ss, acc) ==
    IF ss = <<>> THEN acc
    ELSE DigestAll(Tail(ss), Digest(Head(ss), (acc * 31 + 11) % 65521))

\* What get_traefik_checksum returns when md5sum fails.
None == -2

get_traefik_checksum(d) ==
    IF ~d.exists THEN None ELSE DigestAll(d.routers, IF d.valid THEN 1 ELSE 2)

NoFile == -1

\* (a change test that only compares two fingerprints that both exist)
changed_only_on_mismatch ==
    /\ fpFile # NoFile
    /\ get_traefik_checksum(doc) # None
    /\ get_traefik_checksum(doc) # fpFile

has_traefik_config_changed ==
    \/ get_traefik_checksum(doc) = None
    \/ fpFile = NoFile
    \/ get_traefik_checksum(doc) # fpFile

\* Provider records.
external_ip == "ip1"
Rec(id, type, name, content, proxied) ==
    [id |-> id, type |-> type, name |-> name, content |-> content, proxied |-> proxied]

RootOk == Rec(1, "A", DOMAIN_BASE, "ip1", TRUE)
SshProxied == Rec(2, "A", ssh_hostname, "ip1", TRUE)
AStale == Rec(3, "A", HostA, "ip0", TRUE)
COrphan == Rec(4, "A", HostC, "ip1", TRUE)
MCname == Rec(5, "CNAME", HostM, "target", FALSE)
RootUnproxied == Rec(1, "A", DOMAIN_BASE, "ip1", FALSE)
Zones ==
    {{}, {AStale, COrphan}, {RootOk, SshProxied, AStale, COrphan, MCname}, {RootUnproxied}}
\* An A-record outside the base domain.
Foreign == Rec(6, "A", <<"a", ".", "other">>, "ip0", FALSE)

MaxId(S) == IF S = {} THEN 0 ELSE CHOOSE m \in {r.id : r \in S} : \A r \in S : r.id <= m

RECURSIVE ById(_)
ById(S) ==
    IF S = {} THEN <<>>
    ELSE LET r == CHOOSE x \in S : \A y \in S : x.id <= y.id
         IN <<r>> \o ById(S \ {r})

Range(s) == {s[i] : i \in 1..Len(s)}

\* Index of the first A-record of that name in existing_records, 0 if none.
FindA(name) ==
    LET I == {i \in 1..Len(snapshot) : snapshot[i].type = "A" /\ snapshot[i].name = name}
    IN IF I = {} THEN 0 ELSE CHOOSE i \in I : \A k \in I : i <= k

update_dns_record(z, id, hostname, ip, proxied) ==
    {IF r.id = id THEN Rec(id, "A", hostname, ip, proxied) ELSE r : r \in z}

create_dns_record(z, hostname, ip, proxied) ==
    z \cup {Rec(MaxId(z \cup Range(snapshot)) + 1, "A", hostname, ip, proxied)}

delete_dns_record(z, id) == {r \in z : r.id # id}

should_proxy(h) == ~endswith(h, <<"-d">> \o DotBase)

\* (a comparison that finds every existing record out of date)
NeedsUpdateAlways(r, proxied) == TRUE

\* Ensure one A-record: update it when it differs, create it when it is not
\* in existing_records.  ok: whether the provider call (if one is made)
\* succeeds.
NeedsUpdate(r, proxied) == r.content # external_ip \/ r.proxied # proxied

Ensure(name, proxied, rootRule, ok) ==
    LET i == FindA(name)
        call == IF i = 0 THEN TRUE
                ELSE IF rootRule THEN snapshot[i].content # external_ip
                ELSE NeedsUpdate(snapshot[i], proxied)
    IN /\ call \/ ok
       /\ zone' = IF ~call \/ ~ok THEN zone
                  ELSE IF i = 0 THEN create_dns_record(zone, name, external_ip, proxied)
                  ELSE update_dns_record(zone, snapshot[i].id, name, external_ip, proxied)
       /\ success' = (success /\ (ok \/ ~call))
       /\ recordFailed' = (recordFailed \/ (call /\ ~ok))
       /\ processed' = processed \cup {name}
       /\ apiCalls' = IF ~call THEN apiCalls
                      ELSE Append(apiCalls, <<IF i = 0 THEN "create" ELSE "update", name>>)

\* (a pass that removes nothing)
orphaned_never(r, done) == FALSE

\* (an orphan test that does not look at the record type)
orphaned_any_type(r, done) == endswith(r.name, DotBase) /\ r.name \notin done

orphaned(r, done) ==
    r.type = "A" /\ endswith(r.name, DotBase) /\ r.name \notin done

\* ---- lightweight_check.main: one tick.
TickStartVars ==
    /\ ticks' = ticks + 1
    /\ ranSync' = FALSE
    /\ recordFailed' = FALSE
    /\ success' = FALSE
    /\ hostnames' = <<>>
    /\ snapshot' = <<>>
    /\ processed' = {}
    /\ hi' = 1
    /\ pi' = 1
    /\ rc' = 0
    /\ apiCalls' = <<>>

ConfigChanged ==
    /\ dpc = "idle"
    /\ ticks < MaxPasses
    /\ has_traefik_config_changed
    /\ dpc' = "main"
    /\ TickStartVars
    /\ tickLog' = [probe |-> "none", passes |-> 1]
    /\ UNCHANGED <<doc, tokenSet, baseSet, zone, fpFile, health, edits, othersD>>

\* check_ssh_connectivity: False when DOMAIN_BASE is not set, else the
\* outcome of the probe.
ProbeOk ==
    /\ dpc = "idle"
    /\ ticks < MaxPasses
    /\ ~has_traefik_config_changed
    /\ baseSet
    /\ TickStartVars
    /\ tickLog' = [probe |-> "ok", passes |-> 0]
    /\ health' = ticks'
    /\ dpc' = "idle"
    /\ UNCHANGED <<doc, tokenSet, baseSet, zone, fpFile, edits, othersD>>

ProbeFailed ==
    /\ dpc = "idle"
    /\ ticks < MaxPasses
    /\ ~has_traefik_config_changed
    /\ TickStartVars
    /\ tickLog' = [probe |-> "failed", passes |-> 1]
    /\ dpc' = "main"
    /\ UNCHANGED <<doc, tokenSet, baseSet, zone, fpFile, health, edits, othersD>>

\* ---- sync_cloudflare.main
ConfigNotFound ==
    /\ dpc = "main"
    /\ ~doc.exists
    /\ rc' = 1
    /\ dpc' = "ret"
    /\ UNCHANGED <<doc, tokenSet, baseSet, zone, fpFile, health, hostnames, snapshot,
                   success, processed, hi, pi, ticks, edits, ranSync, recordFailed,
                   apiCalls, tickLog, othersD>>

SyncNotConfigured ==
    /\ dpc = "main"
    /\ doc.exists
    /\ ~tokenSet \/ ~baseSet
    /\ rc' = 0
    /\ dpc' = "ret"
    /\ UNCHANGED <<doc, tokenSet, baseSet, zone, fpFile, health, hostnames, snapshot,
                   success, processed, hi, pi, ticks, edits, ranSync, recordFailed,
                   apiCalls, tickLog, othersD>>

ExtractRaises ==
    /\ dpc = "main"
    /\ doc.exists
    /\ tokenSet /\ baseSet
    /\ ~doc.valid
    /\ rc' = 1
    /\ dpc' = "ret"
    /\ UNCHANGED <<doc, tokenSet, baseSet, zone, fpFile, health, hostnames, snapshot,
                   success, processed, hi, pi, ticks, edits, ranSync, recordFailed,
                   apiCalls, tickLog, othersD>>

Extract ==
    /\ dpc = "main"
    /\ doc.exists
    /\ tokenSet /\ baseSet
    /\ doc.valid
    /\ hostnames' = extract_hostnames(doc)
    /\ success' = TRUE
    /\ ranSync' = TRUE
    /\ dpc' = "ip"
    /\ UNCHANGED <<doc, tokenSet, baseSet, zone, fpFile, health, snapshot,
                   processed, hi, pi, rc, ticks, edits, recordFailed,
                   apiCalls, tickLog, othersD>>

\* ---- sync_dns_records
\* A lookup that raises: the except clause returns False.
get_external_ip ==
    /\ dpc = "ip"
    /\ \E ok \in BOOLEAN :
         /\ dpc' = IF ok THEN "zoneid" ELSE "exit"
         /\ success' = (success /\ ok)
    /\ UNCHANGED snapshot
    /\ UNCHANGED <<doc, tokenSet, baseSet, zone, fpFile, health, hostnames,
                   processed, hi, pi, rc, ticks, edits, ranSync, recordFailed,
                   apiCalls, tickLog, othersD>>

get_zone_id ==
    /\ dpc = "zoneid"
    /\ \E ok \in BOOLEAN :
         /\ dpc' = IF ok THEN "list" ELSE "exit"
         /\ success' = (success /\ ok)
    /\ UNCHANGED snapshot
    /\ UNCHANGED <<doc, tokenSet, baseSet, zone, fpFile, health, hostnames,
                   processed, hi, pi, rc, ticks, edits, ranSync, recordFailed,
                   apiCalls, tickLog, othersD>>

get_existing_records ==
    /\ dpc = "list"
    /\ \E ok \in BOOLEAN :
         /\ dpc' = IF ok THEN "root" ELSE "exit"
         /\ success' = (success /\ ok)
         /\ snapshot' = IF ok THEN ById(zone) ELSE snapshot
    /\ UNCHANGED <<doc, tokenSet, baseSet, zone, fpFile, health, hostnames,
                   processed, hi, pi, rc, ticks, edits, ranSync, recordFailed,
                   apiCalls, tickLog, othersD>>

RootRecord ==
    /\ dpc = "root"
    /\ \E ok \in BOOLEAN : Ensure(DOMAIN_BASE, TRUE, TRUE, ok)
    /\ dpc' = "ssh"
    /\ UNCHANGED <<doc, tokenSet, baseSet, fpFile, health, hostnames, snapshot,
                   hi, pi, rc, ticks, edits, ranSync, tickLog, othersD>>

SshRecord ==
    /\ dpc = "ssh"
    /\ \E ok \in BOOLEAN : Ensure(ssh_hostname, FALSE, FALSE, ok)
    /\ dpc' = "hosts"
    /\ UNCHANGED <<doc, tokenSet, baseSet, fpFile, health, hostnames, snapshot,
                   hi, pi, rc, ticks, edits, ranSync, tickLog, othersD>>

HostRecord ==
    /\ dpc = "hosts"
    /\ hi <= Len(hostnames)
    /\ LET hostname_lower == lower(hostnames[hi])
       IN IF hostname_lower = ssh_hostname
          THEN UNCHANGED <<zone, success, recordFailed, processed, apiCalls>>
          ELSE \E ok \in BOOLEAN :
                  Ensure(hostname_lower, should_proxy(hostname_lower), FALSE, ok)
    /\ hi' = hi + 1
    /\ UNCHANGED <<doc, tokenSet, baseSet, fpFile, health, dpc, hostnames, snapshot,
                   pi, rc, ticks, edits, ranSync, tickLog, othersD>>

\* (a pass that prunes whatever was extracted)
prune_always(hs) == TRUE

\* if hostnames: orphans are removed only when hostnames were extracted.
prune_wanted(hs) == hs # <<>>

HostsDone ==
    /\ dpc = "hosts"
    /\ hi > Len(hostnames)
    /\ dpc' = IF prune_wanted(hostnames) THEN "prune" ELSE "exit"
    /\ UNCHANGED <<doc, tokenSet, baseSet, zone, fpFile, health, hostnames, snapshot,
                   success, processed, hi, pi, rc, ticks, edits, ranSync, recordFailed,
                   apiCalls, tickLog, othersD>>

PruneRecord ==
    /\ dpc = "prune"
    /\ pi <= Len(snapshot)
    /\ LET call == orphaned(snapshot[pi], processed)
       IN \E ok \in BOOLEAN :
            /\ call \/ ok
            /\ zone' = IF call /\ ok THEN delete_dns_record(zone, snapshot[pi].id)
                       ELSE zone
            /\ success' = (success /\ (ok \/ ~call))
            /\ recordFailed' = (recordFailed \/ (call /\ ~ok))
            /\ apiCalls' = IF call THEN Append(apiCalls, <<"delete", snapshot[pi].name>>)
                           ELSE apiCalls
    /\ pi' = pi + 1
    /\ UNCHANGED <<doc, tokenSet, baseSet, fpFile, health, dpc, hostnames, snapshot,
                   processed, hi, rc, ticks, edits, ranSync, tickLog, othersD>>

PruneDone ==
    /\ dpc = "prune"
    /\ pi > Len(snapshot)
    /\ dpc' = "exit"
    /\ UNCHANGED <<doc, tokenSet, baseSet, zone, fpFile, health, hostnames, snapshot,
                   success, processed, hi, pi, rc, ticks, edits, ranSync, recordFailed,
                   apiCalls, tickLog, othersD>>

\* The create/update call Ensure would issue for one A-record, <<>> if none.
EnsureCall(name, proxied, rootRule) ==
    LET i == FindA(name)
    IN IF i = 0 THEN <<"create", name>>
       ELSE IF (IF rootRule THEN snapshot[i].content # external_ip
                ELSE NeedsUpdate(snapshot[i], proxied))
            THEN <<"update", name>>
       ELSE <<>>

\* The per-record call the pass is about to issue, <<>> if the current record
\* needs none.
DueCall ==
    CASE dpc = "root" -> EnsureCall(DOMAIN_BASE, TRUE, TRUE)
      [] dpc = "ssh" -> EnsureCall(ssh_hostname, FALSE, FALSE)
      [] dpc = "hosts" ->
           IF hi > Len(hostnames) THEN <<>>
           ELSE IF lower(hostnames[hi]) = ssh_hostname THEN <<>>
           ELSE EnsureCall(lower(hostnames[hi]), should_proxy(lower(hostnames[hi])), FALSE)
      [] dpc = "prune" ->
           IF pi > Len(snapshot) THEN <<>>
           ELSE IF orphaned(snapshot[pi], processed) THEN <<"delete", snapshot[pi].name>>
           ELSE <<>>
      [] OTHER -> <<>>

\* A create, update or delete call that raises (connection error, or a
\* response body that is not JSON): the exception leaves every loop and is
\* caught by the except clause of sync_dns_records, which returns False.
RecordCallRaises ==
    /\ dpc \in {"root", "ssh", "hosts", "prune"}
    /\ DueCall # <<>>
    /\ apiCalls' = Append(apiCalls, DueCall)
    /\ success' = FALSE
    /\ recordFailed' = TRUE
    /\ dpc' = "exit"
    /\ UNCHANGED <<doc, tokenSet, baseSet, zone, fpFile, health, hostnames, snapshot,
                   processed, hi, pi, rc, ticks, edits, ranSync, tickLog, othersD>>

\* sync_cloudflare.main after sync_dns_records returned: the health file is
\* written on success, and the process exits with code 0 either way.
SyncExit ==
    /\ dpc = "exit"
    /\ health' = IF success THEN ticks ELSE health
    /\ rc' = 0
    /\ dpc' = "ret"
    /\ cleanTick' = IF success /\ doc.exists /\ doc.valid /\ hostnames = extract_hostnames(doc)
                      THEN ticks ELSE 0
    /\ UNCHANGED <<doc, tokenSet, baseSet, zone, fpFile, hostnames, snapshot,
                   success, processed, hi, pi, ticks, edits, ranSync, recordFailed,
                   apiCalls, tickLog, wvars, rvars>>

\* ---- lightweight_check.run_full_sync after the subprocess returned, and
\* the rest of lightweight_check.main.
update_traefik_checksum ==
    fpFile' = IF get_traefik_checksum(doc) = None THEN fpFile
              ELSE get_traefik_checksum(doc)

update_health_check == health' = ticks

FullSyncSucceeded ==
    /\ dpc = "ret"
    /\ rc = 0
    /\ update_traefik_checksum
    /\ update_health_check
    /\ dpc' = "idle"
    /\ UNCHANGED <<doc, tokenSet, baseSet, zone, hostnames, snapshot,
                   success, processed, hi, pi, rc, ticks, edits, ranSync, recordFailed,
                   apiCalls, tickLog, othersD>>

FullSyncFailed ==
    /\ dpc = "ret"
    /\ rc # 0
    /\ dpc' = "idle"
    /\ UNCHANGED <<doc, tokenSet, baseSet, zone, fpFile, health, hostnames, snapshot,
                   success, processed, hi, pi, rc, ticks, edits, ranSync, recordFailed,
                   apiCalls, tickLog, othersD>>

\* The config file is rewritten by its owner, at any time.
EditDoc ==
    /\ edits < MaxEdits
    /\ edits' = edits + 1
    /\ \E d \in Docs \ {doc} : doc' = d
    /\ cleanTick' = 0
    /\ UNCHANGED <<tokenSet, baseSet, zone, fpFile, health, dpc, hostnames, snapshot,
                   success, processed, hi, pi, rc, ticks, ranSync, recordFailed,
                   apiCalls, tickLog, wvars, rvars>>

----------------------------------------------------------------------------
\* Initial states.

\* Empty queues, no rows, every worker at the top of its loop.
WEmpty ==
    /\ queues = [k \in QueueKeys |-> <<>>]
    /\ jobs = [j \in JobIds |-> NoRow]
    /\ redelivered = 0
    /\ pc = [w \in Workers |-> "scan"]
    /\ qi = [w \in Workers |-> 1]
    /\ cur = [w \in Workers |-> NoJob]
    /\ claimCount = [j \in JobIds |-> 0]
    /\ claimLog = <<>>
    /\ enqLog = <<>>
    /\ errors = 0

WInit == WEmpty /\ kind = "asr"

\* The workers left out of a run.
WParked == WInit /\ started = FALSE

\* The rate limiter at rest: empty store, no call in flight.
RQuiet ==
    /\ clock = 0
    /\ calls = 0
    /\ zset = {}
    /\ zexp = NoExpiry
    /\ fw = <<>>
    /\ cpc = [c \in Clients |-> "idle"]
    /\ cnow = [c \in Clients |-> 0]
    /\ ccount = [c \in Clients |-> 0]
    /\ cnonce = [c \in Clients |-> 0]
    /\ resp = NoResp
    /\ hits = {}
    /\ allowed = {}
    /\ fwHist = <<>>
    /\ hz = NoHz
    /\ req = NoReq
    /\ others = <<>>

RInit ==
    /\ RQuiet
    /\ ralgo = "any"
    /\ rlimit \in Limits
    /\ rwindow \in Windows

\* The rate limiter left out of a run.
RParked == RQuiet /\ ralgo = "any" /\ rlimit = 1 /\ rwindow = 2 /\ serial = TRUE

\* The reconciler before its first tick.
DQuiet ==
    /\ health = 0
    /\ dpc = "idle"
    /\ hostnames = <<>>
    /\ snapshot = <<>>
    /\ success = FALSE
    /\ processed = {}
    /\ hi = 1
    /\ pi = 1
    /\ rc = 0
    /\ ticks = 0
    /\ edits = 0
    /\ ranSync = FALSE
    /\ recordFailed = FALSE
    /\ apiCalls = <<>>
    /\ tickLog = [probe |-> "none", passes |-> 0]
    /\ cleanTick = 0

DInit ==
    /\ DQuiet
    /\ doc \in Docs
    /\ tokenSet \in BOOLEAN
    /\ baseSet \in BOOLEAN
    /\ zone \in Zones
    /\ fpFile \in {NoFile} \cup ({get_traefik_checksum(d) : d \in Docs} \ {None})

\* The reconciler left out of a run.
DParked ==
    /\ DQuiet
    /\ doc = DocEmpty
    /\ tokenSet = TRUE
    /\ baseSet = TRUE
    /\ zone = {}
    /\ fpFile = NoFile

----------------------------------------------------------------------------
\* Specifications of the workers.

WorkerStep(w) ==
    \/ Pop(w)
    \/ PopTimeout(w)
    \/ Select(w)
    \/ Update(w)
    \/ AdapterReturn(w)
    \/ AdapterRaise(w)
    \/ Complete(w)
    \/ Fail(w)

\* Any number of workers, producers and an operator, all running concurrently.
InitWorkers == WInit /\ started = TRUE /\ RParked /\ DParked

NextWorkers ==
    \/ \E j \in RaceJobs, p \in PrioritySet : Enqueue(j, p)
    \/ \E j \in RaceJobs : Redeliver(j)
    \/ \E j \in RaceJobs : Cancel(j)
    \/ \E w \in Workers : WorkerStep(w)

SpecWorkers == InitWorkers /\ [][NextWorkers]_vars

\* A batch of jobs is enqueued, then a single worker is started (run_worker sets
\* self.running) and nothing else is enqueued.
InitOrder == WInit /\ started = FALSE /\ RParked /\ DParked

Start ==
    /\ ~started
    /\ started' = TRUE
    /\ UNCHANGED <<queues, jobs, redelivered, pc, qi, cur, claimCount, claimLog, enqLog, errors, othersW>>

NextOrder ==
    \/ \E j \in JobIds, p \in PrioritySet : ~started /\ Enqueue(j, p)
    \/ Start
    \/ WorkerStep("w1")

SpecOrder == InitOrder /\ [][NextOrder]_vars

\* The priorities producers use where two levels are enough.
StagePriorities == {"URGENT", "LOW"}

\* Producers enqueue each job once, at any time; the worker is started and
\* keeps running: run_worker takes its next step whenever it can (a blocking
\* pop returns or times out after 1 s, a statement on the store returns, the
\* adapter returns or raises).
NextLive ==
    \/ \E j \in JobIds, p \in StagePriorities : Enqueue(j, p)
    \/ Start
    \/ WorkerStep("w1")

SpecLive ==
    /\ InitOrder
    /\ [][NextLive]_vars
    /\ WF_vars(Start)
    /\ WF_vars(WorkerStep("w1"))

\* Static queues holding stale entries: before the single worker starts, jobs
\* are enqueued, ids are delivered twice or pushed without a row, and rows are
\* cancelled or left RUNNING by a worker that is gone.  An id pushed without
\* a row is not the id of a job enqueued later.
StalePriorities == {"URGENT", "HIGH"}

NextStale ==
    \/ \E j \in JobIds, p \in StalePriorities :
          ~started /\ ~InSomeQueue(j) /\ Enqueue(j, p)
    \/ \E j \in JobIds, p \in StalePriorities : ~started /\ StalePush(j, p)
    \/ \E j \in JobIds : ~started /\ Redeliver(j)
    \/ \E j \in JobIds : ~started /\ Cancel(j)
    \/ \E j \in JobIds : ~started /\ Strand(j)
    \/ Start
    \/ WorkerStep("w1")

SpecStale == InitOrder /\ [][NextStale]_vars

\* One diarization or TTS worker and producers of the job types it scans for.
StageKinds == {"diarization", "tts"}

InitStages == WEmpty /\ kind \in StageKinds /\ started = TRUE /\ RParked /\ DParked

NextStages ==
    \/ \E j \in RaceJobs, p \in StagePriorities :
          \E i \in 1..Len(ScanOrder("w1")) : EnqueueType(j, ScanOrder("w1")[i][1], p)
    \/ WorkerStep("w1")
    \/ NotImplemented("w1")

SpecStages == InitStages /\ [][NextStages]_vars

\* A batch of jobs of the types a diarization or TTS worker serves is
\* enqueued, then the single worker is started and nothing else is enqueued.
InitTypeOrder == WEmpty /\ kind \in StageKinds /\ started = FALSE /\ RParked /\ DParked

NextTypeOrder ==
    \/ \E j \in JobIds, p \in StagePriorities :
          \E i \in 1..Len(ScanOrder("w1")) :
              ~started /\ EnqueueType(j, ScanOrder("w1")[i][1], p)
    \/ Start
    \/ WorkerStep("w1")
    \/ NotImplemented("w1")

SpecTypeOrder == InitTypeOrder /\ [][NextTypeOrder]_vars

\* The concurrent workers with a relational store whose statements may raise.
StoreErrorStep(w) ==
    \/ SelectRaises(w)
    \/ UpdateRaises(w)
    \/ CompleteRaises(w)
    \/ FailRaises(w)

NextFaults ==
    \/ NextWorkers
    \/ \E w \in Workers : StoreErrorStep(w)

SpecFaults == InitWorkers /\ [][NextFaults]_vars

----------------------------------------------------------------------------
\* Specifications of the rate limiter.

\* Sliding-window checks for one id, issued concurrently.
InitSliding == RInit /\ serial = FALSE /\ WParked /\ DParked

NextSliding ==
    \/ Tick
    \/ Pause
    \/ \E c \in Clients :
         \/ StartSliding(c)
         \/ TrimCount(c)
         \/ Deny(c)
         \/ ZAdd(c)
         \/ Allow(c)
         \/ Timeout(c)

SpecSliding == InitSliding /\ [][NextSliding]_vars

\* Sliding-window checks for one id, issued one after another.
InitSlidingSerial == RInit /\ serial = TRUE /\ WParked /\ DParked

SpecSlidingSerial == InitSlidingSerial /\ [][NextSliding]_vars

\* Fixed-window checks for one id, concurrent or serial.
InitFixed == RInit /\ serial \in BOOLEAN /\ WParked /\ DParked

NextFixed ==
    \/ Tick
    \/ Pause
    \/ \E c \in Clients :
         \/ StartFixed(c)
         \/ IncrRespond(c)

SpecFixed == InitFixed /\ [][NextFixed]_vars

\* The service answering fixed-window checks and health probes.
NextHealth ==
    \/ NextFixed
    \/ healthz

SpecHealth == InitFixed /\ [][NextHealth]_vars

\* Checks for one id with the same limit and windowMs, issued one after
\* another: all with the same algo (SpecSerial), or some with algo sliding and
\* some with algo fixed (SpecMixed).
Algos == {"sliding", "fixed"}

InitSerial ==
    /\ RQuiet
    /\ ralgo \in Algos
    /\ rlimit \in Limits
    /\ rwindow \in Windows
    /\ serial = TRUE
    /\ WParked /\ DParked

NextAlgos ==
    \/ Tick
    \/ Pause
    \/ \E c \in Clients :
         \/ ralgo # "fixed" /\ StartSliding(c)
         \/ TrimCount(c)
         \/ Deny(c)
         \/ ZAdd(c)
         \/ Allow(c)
         \/ Timeout(c)
         \/ ralgo # "sliding" /\ StartFixed(c)
         \/ IncrRespond(c)

SpecSerial == InitSerial /\ [][NextAlgos]_vars

InitMixed ==
    /\ RQuiet
    /\ ralgo = "any"
    /\ rlimit = 2
    /\ rwindow \in Windows
    /\ serial = TRUE
    /\ WParked /\ DParked

SpecMixed == InitMixed /\ [][NextAlgos]_vars

\* Fixed-window checks for Id and sliding-window checks for other ids, issued
\* one after another against the same store.
InitKeys ==
    /\ RQuiet
    /\ ralgo = "any"
    /\ rlimit \in Limits
    /\ rwindow \in Windows
    /\ serial = TRUE
    /\ WParked /\ DParked

NextKeys ==
    \/ Tick
    \/ \E c \in Clients :
         \/ StartFixed(c)
         \/ IncrRespond(c)
         \/ IncrWrongType(c)
         \/ \E o \in OtherIds : SlidingOther(c, o)

SpecKeys == InitKeys /\ [][NextKeys]_vars

\* Requests of every shape, answered one after another: the ones that pass
\* the checks run their algorithm (StartSliding, StartFixed).
NextRequests ==
    \/ Tick
    \/ Pause
    \/ \E c \in Clients :
         \/ RejectRequest(c)
         \/ StartSliding(c)
         \/ TrimCount(c)
         \/ Deny(c)
         \/ ZAdd(c)
         \/ Allow(c)
         \/ Timeout(c)
         \/ StartFixed(c)
         \/ IncrRespond(c)

InitRequests == RQuiet /\ ralgo = "any" /\ rlimit = 1 /\ rwindow = 2 /\ serial = TRUE /\ WParked /\ DParked

SpecRequests == InitRequests /\ [][NextRequests]_vars

\* Checks of either algorithm whose limit or windowMs is below 1.
InvalidLimits == {0, 1}
InvalidWindows == {0, 1}

InitInvalid ==
    /\ RQuiet
    /\ ralgo = "any"
    /\ rlimit \in InvalidLimits
    /\ rwindow \in InvalidWindows
    /\ rlimit < 1 \/ rwindow < 1
    /\ serial \in BOOLEAN
    /\ WParked /\ DParked

NextInvalid ==
    \/ Tick
    \/ Pause
    \/ \E c \in Clients :
         \/ StartSliding(c)
         \/ TrimCount(c)
         \/ Deny(c)
         \/ ZAdd(c)
         \/ Allow(c)
         \/ Timeout(c)
         \/ StartFixed(c)
         \/ IncrRespond(c)
         \/ FixedDivisionByZero(c)

SpecInvalid == InitInvalid /\ [][NextInvalid]_vars

----------------------------------------------------------------------------
\* Specification of the DNS reconciler: ticks of the lightweight check, each
\* escalating to a full pass or not, while the config file may be edited.

InitDns == DInit /\ WParked /\ RParked

NextDns ==
    \/ ConfigChanged
    \/ ProbeOk
    \/ ProbeFailed
    \/ ConfigNotFound
    \/ SyncNotConfigured
    \/ ExtractRaises
    \/ Extract
    \/ get_external_ip
    \/ get_zone_id
    \/ get_existing_records
    \/ RootRecord
    \/ SshRecord
    \/ HostRecord
    \/ HostsDone
    \/ PruneRecord
    \/ PruneDone
    \/ RecordCallRaises
    \/ SyncExit
    \/ FullSyncSucceeded
    \/ FullSyncFailed
    \/ EditDoc

SpecDns == InitDns /\ [][NextDns]_vars

\* Passes of a configured reconciler over a config file that is not edited:
\* the sources include hostnames that occur twice, the zones a record outside
\* the base domain.
PassDocs == {DocEmpty, DocAB, DocMixed, DocDup, DocDupCase}
PassZones == Zones \cup {{RootOk, COrphan, MCname, Foreign}}

InitPass ==
    /\ DQuiet
    /\ doc \in PassDocs
    /\ tokenSet = TRUE
    /\ baseSet = TRUE
    /\ zone \in PassZones
    /\ fpFile = NoFile
    /\ WParked /\ RParked

NextPass ==
    \/ ConfigChanged
    \/ ProbeOk
    \/ ProbeFailed
    \/ Extract
    \/ get_external_ip
    \/ get_zone_id
    \/ get_existing_records
    \/ RootRecord
    \/ SshRecord
    \/ HostRecord
    \/ HostsDone
    \/ PruneRecord
    \/ PruneDone
    \/ RecordCallRaises
    \/ SyncExit
    \/ FullSyncSucceeded

SpecPass == InitPass /\ [][NextPass]_vars


----------------------------------------------------------------------------
\* Claims about the workers.

\* C1: for every job id, at most one worker performs the QUEUED->RUNNING
\* transition and dispatches the job to its adapter, whatever the interleaving
\* of pop, SELECT and UPDATE, also when the id was pushed twice.
C1_AtMostOneClaim == \A j \in JobIds : claimCount[j] <= 1

\* C4: a worker's terminal write (COMPLETED or FAILED) changes a Job row only if
\* the row is RUNNING with workerId equal to the writing worker.
C4_TerminalWriteGuarded ==
    [][\A w \in Workers :
          ((Complete(w) \/ Fail(w)) /\ jobs'[cur[w]] # jobs[cur[w]])
              => (jobs[cur[w]].status = "RUNNING" /\ jobs[cur[w]].workerId = w)]_vars

\* C5: a row's status changes only along QUEUED->RUNNING, QUEUED->CANCELLED and
\* RUNNING->{COMPLETED, FAILED, CANCELLED} (a row is created QUEUED).
AllowedTransitions ==
    { <<"NONE", "QUEUED">>, <<"QUEUED", "RUNNING">>, <<"QUEUED", "CANCELLED">>,
      <<"RUNNING", "COMPLETED">>, <<"RUNNING", "FAILED">>, <<"RUNNING", "CANCELLED">> }

C5_StatusDag ==
    [][\A j \in JobIds :
          jobs'[j].status # jobs[j].status
              => <<jobs[j].status, jobs'[j].status>> \in AllowedTransitions]_vars

\* The claim order a priority-then-FIFO scheduler gives the batch in enqLog.
BatchOf(p) == SelectSeq(enqLog, LAMBDA e : e[2] = p)

ExpectedOrder ==
    LET all == BatchOf("URGENT") \o BatchOf("HIGH") \o BatchOf("NORMAL") \o BatchOf("LOW")
    IN  [i \in 1..Len(all) |-> all[i][1]]

\* C10: a single worker started after a batch was enqueued claims the batch in
\* priority order URGENT, HIGH, NORMAL, LOW and, within a priority, in enqueue
\* order: at every moment the claims made so far are the first jobs of that order.
C10_PriorityFifoOrder ==
    started => claimLog = SubSeq(ExpectedOrder, 1, Len(claimLog))

\* C10 witness: A:LOW, B:URGENT, C:NORMAL enqueued in that order, claimed B, C, A.
C10_Witness ==
    /\ started
    /\ enqLog = << <<"A", "LOW">>, <<"B", "URGENT">>, <<"C", "NORMAL">> >>
    /\ claimLog = <<"B", "C", "A">>


----------------------------------------------------------------------------
\* Claims about the rate limiter.

\* The members of set whose score lies in the window of length rwindow ending at t.
InWindow(set, t) == {g \in set : t - rwindow < g[1] /\ g[1] <= t}

\* C2: when sliding-window checks for one id run concurrently, the number of
\* allow=true responses whose hits lie within one window of windowMs is at most
\* limit.
C2_ConcurrentLimit ==
    \A h \in allowed : Cardinality(InWindow(allowed, h[1])) <= rlimit

\* C6: when sliding-window checks are issued one after another, at most limit of
\* them are allowed in any window of windowMs, and a call is denied only when
\* limit hits were recorded in the window ending at its time (with limit 1: the
\* first call is allowed, a second call inside the window is denied).
C6_SerialLimit ==
    /\ \A t \in {h[1] : h \in allowed} : Cardinality(InWindow(allowed, t)) <= rlimit
    /\ (resp.status = 200 /\ ~resp.allow)
          => Cardinality(InWindow(hits, resp.now)) >= rlimit

\* C6 witness: limit 1, a call was allowed and a later call inside its window
\* has just been denied.
C6_Witness ==
    /\ rlimit = 1
    /\ resp.status = 200 /\ ~resp.allow
    /\ \E h \in allowed : h[1] <= resp.now /\ resp.now < h[1] + rwindow

\* C7: fixed window, limit N: the calls that fall into one bucket floor(now / W)
\* get exactly min(calls, N) allow=true responses (N + k calls: N allows, k denies).
C7_FixedExact ==
    \A b \in DOMAIN fwHist :
        fwHist[b].allows = IF fwHist[b].calls <= rlimit THEN fwHist[b].calls ELSE rlimit
\* C14: a check with limit < 1 or windowMs < 1 is answered with a 4xx status
\* and writes nothing to the store: no member, no counter, no expiry.
C14_InvalidRejected ==
    (rlimit < 1 \/ rwindow < 1) =>
        /\ resp = NoResp \/ (400 <= resp.status /\ resp.status <= 499)
        /\ zset = {} /\ zexp = NoExpiry /\ fw = <<>>

\* C15: every allow = false response carries a reset later than the "now" its
\* call read and at most windowMs after it.
C15_ResetInWindow ==
    (resp.status = 200 /\ ~resp.allow) =>
        (resp.now < resp.reset /\ resp.reset <= resp.now + rwindow)

\* C19: a check that is answered 2 s or more after it read the clock (its
\* store operations did not complete within 2 s) is answered with status 504.
C19_TimeoutAnswered ==
    [][\A c \in Clients :
         (cpc[c] # "idle" /\ cpc'[c] = "idle" /\ clock - cnow[c] >= TimeoutMs) =>
             resp'.status = 504]_vars

\* C20: every answer of GET /healthz has status 200 and an ok field that is
\* true iff the ping to the store succeeded.
C20_HealthzAlways200 ==
    hz # NoHz => (hz.status = 200 /\ hz.ok = hz.pinged)

\* C32: fixed window: in any interval of windowMs milliseconds, also one that
\* straddles the boundary between two buckets, at most limit calls are allowed.
C32_FixedAnyInterval ==
    \A h \in allowed :
        Cardinality({g \in allowed : h[1] <= g[1] /\ g[1] < h[1] + rwindow}) <= rlimit

\* C35: with calls issued one after another and limit >= 1, the call that
\* follows a denied call (reset = r) and reads a time >= r is allowed; with
\* the fixed algorithm the first call of a bucket is allowed whatever count
\* the buckets before it reached.
C35_AllowedAfterReset ==
    [][/\ (resp.status = 200 /\ ~resp.allow /\ resp' # resp
            /\ resp'.status = 200 /\ resp'.now >= resp.reset) => resp'.allow
       /\ \A c \in Clients :
            (cpc[c] = "incr" /\ cpc'[c] = "idle"
             /\ Bucket(cnow[c], rwindow) \notin DOMAIN fwHist) => resp'.allow]_vars

\* Sliding window, limit 1, window 2 ms: allowed at 0, denied at 1 with
\* reset 2, allowed at 2.
C35_Witness ==
    /\ ralgo = "sliding" /\ rlimit = 1 /\ rwindow = 2
    /\ clock = 2 /\ calls = 3
    /\ allowed = {<<0, 1>>, <<2, 3>>}
    /\ hits = allowed
    /\ resp.status = 200 /\ resp.allow /\ resp.now = 2

\* C37: with calls issued one after another, a denied call that follows a
\* denied call returns the same reset, and a denied sliding-window check adds
\* no member to the sorted set and leaves the expiry of its key as it is.
C37_DenialsKeepReset ==
    [][/\ (resp.status = 200 /\ ~resp.allow /\ resp'.status = 200 /\ ~resp'.allow)
            => resp'.reset = resp.reset
       /\ \A c \in Clients :
            (cpc[c] = "trim" /\ cpc'[c] = "deny") =>
                (zset' \subseteq zset /\ hits' = hits /\ zexp' = zexp)
       /\ \A c \in Clients :
            (cpc[c] = "deny" /\ cpc'[c] = "idle") =>
                (zset' = zset /\ hits' = hits /\ zexp' = zexp)]_vars

\* Sliding window, limit 1, window 2 ms: allowed at 0, denied at 0 and denied
\* again at 1, both with reset 2.
C37_Witness ==
    /\ ralgo = "sliding" /\ rlimit = 1 /\ rwindow = 2
    /\ calls = 3 /\ clock = 1
    /\ allowed = {<<0, 1>>} /\ hits = allowed
    /\ resp.status = 200 /\ ~resp.allow /\ resp.now = 1 /\ resp.reset = 2

\* C38: the sorted-set key does not expire while it holds a hit that is
\* still inside the window, and a fixed-window counter in which a call was
\* counted does not expire before the end of its bucket.
C38_ExpiryKeepsLiveState ==
    /\ \A m \in zset : clock < m[1] + rwindow => ~Expired(zexp)
    /\ \A b \in DOMAIN fw : clock < (b + 1) * rwindow => ~Expired(fw[b].exp)

\* Window 2 ms, time 1: the sorted set holds the hit of a call that read time
\* 0 and was recorded at time 1, and the counter of bucket 0 has counted two
\* calls, the second at time 1; both keys have their expiry ahead.
C38_Witness ==
    /\ rwindow = 2 /\ clock = 1
    /\ \E m \in zset : m[1] = 0
    /\ zexp = 1 + rwindow + TtlPadMs
    /\ 0 \in DOMAIN fw /\ fw[0].exp = 3 /\ fw[0].value = 2

\* C39: the store key of a sliding-window check for another id is never the
\* key of a fixed-window bucket of Id, and no check is answered with an
\* error because of a check made for another id.
C39_KeySpacesDisjoint ==
    /\ \A key \in DOMAIN others : \A b \in DOMAIN fw : key # FixedKey(Id, b)
    /\ resp.status # 500

\* The number of the last answered call among the hits of its window
\* (sliding) or among the allowed calls of its bucket (fixed).
RankOfResp ==
    IF fwHist # <<>>
    THEN fwHist[Bucket(resp.now, rwindow)].allows
    ELSE Cardinality(InWindow(hits, resp.now))

C26_WindowBoundary ==
    [][\A c \in Clients :
         (cpc[c] = "trim" /\ cpc'[c] \in {"deny", "zadd"}) =>
            \A h \in hits :
               /\ cnow[c] = h[1] + rwindow - 1 =>
                     /\ h \in zset'
                     /\ ccount'[c] >= 1
                     /\ rlimit = 1 => cpc'[c] = "deny"
               /\ cnow[c] = h[1] + rwindow + 1 =>
                     /\ h \notin zset'
                     /\ (rlimit = 1 /\ InWindow(hits, cnow[c]) = {}) => cpc'[c] = "zadd"]_vars

\* limit 1, window 1 ms: allowed at 0, denied at 0 = t + W - 1, allowed at
\* 2 = t + W + 1.
C26_Witness ==
    /\ rlimit = 1 /\ rwindow = 1
    /\ calls = 3
    /\ allowed = {<<0, 1>>, <<2, 3>>}
    /\ resp.status = 200 /\ resp.allow /\ resp.now = 2

\* A body that is not JSON, or whose id is missing or blank, or whose algo is
\* something other than sliding or fixed.
Malformed(b) ==
    \/ b.json = "malformed"
    \/ b.json = "object" /\ b.id.t = "absent"
    \/ b.json = "object" /\ b.id.t = "str" /\ \A i \in 1..Len(b.id.v) : b.id.v[i] = " "
    \/ b.json = "object" /\ b.algo.t = "int"
    \/ b.json = "object" /\ b.algo.t = "str" /\ b.algo.v # <<>>
          /\ b.algo.v \notin {<<"sliding">>, <<"SLIDING">>, <<"fixed">>, <<"FIXED">>}

\* C27: a POST /ratelimit request with malformed JSON, a missing or blank
\* id, or an algo other than sliding or fixed is answered 400 and performs no
\* operation on the store.
C27_BadRequest400 ==
    [][(calls' = calls + 1 /\ (\A c \in Clients : cpc'[c] = "idle") /\ Malformed(req')) =>
          /\ resp'.status = 400
          /\ zset' = zset /\ zexp' = zexp /\ fw' = fw]_vars

\* C28: in every reachable state a COMPLETED row has progress = 100,
\* completedAt and outputData set, and a FAILED row has completedAt and
\* errorMessage set.
C28_TerminalRowFields ==
    \A j \in JobIds :
        /\ jobs[j].status = "COMPLETED" =>
              (jobs[j].progress = 100 /\ jobs[j].completedAt /\ jobs[j].outputData)
        /\ jobs[j].status = "FAILED" =>
              (jobs[j].completedAt /\ jobs[j].errorMessage)

\* One job is COMPLETED and another, claimed by two workers, ended FAILED.
C28_Witness ==
    \E j, i \in JobIds :
        /\ jobs[j].status = "COMPLETED"
        /\ jobs[i].status = "FAILED" /\ claimCount[i] = 2

\* Position of a priority in URGENT, HIGH, NORMAL, LOW.
PriorityRank(p) == CHOOSE i \in 1..Len(Priorities) : Priorities[i] = p

\* The queues of the same job type with a strictly higher priority.
HigherQueues(key) ==
    {k \in QueueKeys : k[1] = key[1] /\ PriorityRank(k[2]) < PriorityRank(key[2])}

\* C11: whenever a worker pops an id from queue:<T>:<p>, every queue:<T>:<q>
\* of strictly higher priority q is empty at that moment.
C11_PopsHighestNonEmpty ==
    [][\A w \in Workers :
         Pop(w) => \A k \in HigherQueues(ScanOrder(w)[qi[w]]) : queues[k] = <<>>]_vars

\* Whether a worker holds an id between its pop and its claim UPDATE.
HeldForClaim(j) ==
    \E w \in Workers : cur[w] = j /\ pc[w] \in {"select", "update"}

\* C12: a Job row that is still QUEUED has its id in some queue or held by a
\* worker that is about to claim it; a popped id is dropped only when its row
\* is no longer QUEUED.
C12_QueuedNeverLost ==
    \A j \in JobIds : jobs[j].status = "QUEUED" => (InSomeQueue(j) \/ HeldForClaim(j))

\* C13: when a worker is done with a job whose processing ended with an
\* error (it leaves the error handler of run_worker), the row is FAILED and
\* carries an errorMessage; and a worker that goes back to scanning the
\* queues does not leave the job it claimed in RUNNING.
C13_FailureRecorded ==
    [][\A w \in Workers :
         /\ (pc[w] = "fail" /\ pc'[w] # "fail") =>
                (jobs'[cur[w]].status = "FAILED" /\ jobs'[cur[w]].errorMessage)
         /\ (pc[w] \in {"process", "complete", "fail"} /\ pc'[w] = "scan") =>
                jobs'[cur[w]].status # "RUNNING"]_vars

\* C24: a worker that pops an id whose row is missing or not QUEUED leaves
\* every row unchanged, does not claim or run the job, and goes on with the
\* next queue; with no other worker around, a row that is missing,
\* cancelled, terminal or RUNNING under another worker is never changed.
C24_DiscardLeavesRow ==
    [][/\ \A w \in Workers :
            (pc[w] = "select" /\ jobs[cur[w]].status # "QUEUED" /\ pc'[w] # "select") =>
                /\ jobs' = jobs
                /\ claimCount' = claimCount
                /\ pc'[w] = "scan"
                /\ qi'[w] = NextQueueIndex(w, qi[w])
                /\ cur'[w] = NoJob
       /\ \A j \in JobIds :
            (started /\ (jobs[j].status \in {"NONE", "CANCELLED", "COMPLETED", "FAILED"}
                          \/ jobs[j].workerId = GoneWorker)) =>
                jobs'[j] = jobs[j]]_vars

\* The worker popped and dropped the id of a cancelled row, the id of a row
\* left RUNNING by another worker and an id without a row, and completed a job.
C24_Witness ==
    /\ started
    /\ pc["w1"] = "scan"
    /\ \E j \in JobIds : jobs[j].status = "CANCELLED" /\ ~InSomeQueue(j)
    /\ \E j \in JobIds : jobs[j].workerId = GoneWorker /\ ~InSomeQueue(j)
    /\ \E j \in JobIds : jobs[j].status = "COMPLETED" /\ ~InSomeQueue(j)

\* C30: with static queues in which some entries refer to rows that are not
\* QUEUED, a single worker never claims a job while the id of a QUEUED job
\* is in a queue of the same type and higher priority.
C30_PriorityKeptWithStaleEntries ==
    [][\A w \in Workers :
         (started /\ pc[w] = "update" /\ pc'[w] = "process") =>
             \A k \in HigherQueues(<<jobs[cur[w]].type, jobs[cur[w]].priority>>) :
                 \A i \in 1..Len(queues[k]) : jobs[queues[k][i]].status # "QUEUED"]_vars

\* C29: a claimed job whose type the worker has no stage adapter for ends
\* FAILED with a schema-mismatch message and is never recorded as COMPLETED.
C29_UnknownTypeFails ==
    /\ \A j \in JobIds :
          (claimCount[j] > 0 /\ ~HasAdapter(kind, jobs[j].type)) =>
              jobs[j].status # "COMPLETED"
    /\ \A j \in JobIds :
          (claimCount[j] > 0 /\ ~HasAdapter(kind, jobs[j].type)
              /\ \A w \in Workers : cur[w] # j) =>
              jobs[j].status = "FAILED"

job_types ==
    CASE kind = "diarization" -> <<"DIARIZATION", "EMBEDDING_EXTRACTION", "SPEAKER_CLUSTERING">>
      [] kind = "tts" -> <<"TTS_SYNTHESIS", "TTS_TRAINING">>
      [] OTHER -> <<"TRANSCRIPTION">>

TypeRank(t) == CHOOSE i \in 1..Len(job_types) : job_types[i] = t

\* Whether job a comes before job b in the order "type first, priority second".
ClaimedNoLater(a, b) ==
    \/ TypeRank(jobs[a].type) < TypeRank(jobs[b].type)
    \/ /\ jobs[a].type = jobs[b].type
       /\ PriorityRank(jobs[a].priority) <= PriorityRank(jobs[b].priority)

\* C31: a single diarization or TTS worker started after a batch was enqueued
\* claims the batch ordered by type first and priority second: a job is claimed
\* only when no job of an earlier type, or of its type and a higher priority,
\* is still QUEUED, so every job of an earlier type is claimed before any job
\* of a later type, whatever the priorities.
C31_TypeThenPriority ==
    /\ \A i, k \in 1..Len(claimLog) : i < k => ClaimedNoLater(claimLog[i], claimLog[k])
    /\ \A i \in 1..Len(claimLog) : \A j \in JobIds :
          jobs[j].status = "QUEUED" => ClaimedNoLater(claimLog[i], j)

\* Diarization worker: A is a LOW DIARIZATION job, B an URGENT
\* SPEAKER_CLUSTERING job and C an URGENT EMBEDDING_EXTRACTION job, enqueued
\* B, C, A and claimed A, C, B.
C31_Witness ==
    /\ kind = "diarization"
    /\ enqLog = << <<"B", "URGENT">>, <<"C", "URGENT">>, <<"A", "LOW">> >>
    /\ jobs["A"].type = "DIARIZATION"
    /\ jobs["B"].type = "SPEAKER_CLUSTERING"
    /\ jobs["C"].type = "EMBEDDING_EXTRACTION"
    /\ claimLog = <<"A", "C", "B">>

----------------------------------------------------------------------------
\* Claims about the DNS reconciler.

\* C3: the persisted fingerprint changes only at the end of a tick whose
\* full pass called sync_dns_records and had no failed provider call; after
\* a failed pass, or a pass that exited because the token or the base domain
\* is not configured, the fingerprint file is unchanged.
C3_FingerprintOnlyAfterSuccess ==
    [][fpFile' # fpFile => (ranSync /\ success)]_vars

\* C8: a tick in which a per-record provider call failed leaves the
\* fingerprint file as it was, and the tick that follows it runs a full pass
\* (it never ends with the probe alone).
C8_FailedPassRetried ==
    [][/\ (dpc = "ret" /\ recordFailed) => fpFile' = fpFile
       /\ (dpc = "idle" /\ recordFailed /\ ticks' # ticks) => dpc' = "main"]_vars

\* The desired set D of a pass, and the names of the zone's A-records.
Desired ==
    {DOMAIN_BASE, ssh_hostname} \cup {lower(hostnames[i]) : i \in 1..Len(hostnames)}

ANames(z) == {r.name : r \in {x \in z : x.type = "A"}}

ManagedANames(z) ==
    {n \in ANames(z) : n = DOMAIN_BASE \/ endswith(n, DotBase)}

\* C9: when sync_dns_records has finished with every provider call
\* succeeded, every name of D has an A-record in the zone, and if the
\* extracted list was non-empty the zone's A-record names within the base
\* domain are exactly D.
C9_DesiredEqualsRemote ==
    (dpc = "exit" /\ success) =>
        /\ Desired \subseteq ANames(zone)
        /\ hostnames # <<>> => ManagedANames(zone) = Desired

\* Source {a, b} against a zone holding a (stale address) and c: after the
\* pass a is updated, b is created and c is gone.
C9_Witness ==
    /\ dpc = "exit" /\ success
    /\ hostnames = <<HostA, HostB>>
    /\ {AStale, COrphan} \subseteq Range(snapshot)
    /\ Rec(AStale.id, "A", HostA, external_ip, TRUE) \in zone
    /\ \E r \in zone : r.name = HostB /\ r.content = external_ip /\ r.proxied
    /\ HostC \notin ANames(zone)

\* The operations of the provider calls issued so far in the current tick.
CallOps == {apiCalls[i][1] : i \in 1..Len(apiCalls)}

\* C16: in a pass whose extracted hostname list is empty no delete call is
\* issued, every record that was in the zone other than the root and the
\* helper stays as it was, and once the pass is through with every call
\* succeeded the root record and the helper record exist.
C16_EmptyListNoDelete ==
    (ranSync /\ hostnames = <<>>) =>
        /\ "delete" \notin CallOps
        /\ \A r \in Range(snapshot) : r.name \notin {DOMAIN_BASE, ssh_hostname} => r \in zone
        /\ (dpc = "exit" /\ success) => {DOMAIN_BASE, ssh_hostname} \subseteq ANames(zone)

\* Empty list against a zone holding a and c: both are still there after the
\* pass, and the root and the helper have been created.
C16_Witness ==
    /\ ranSync /\ hostnames = <<>>
    /\ dpc = "exit" /\ success
    /\ snapshot = ById({AStale, COrphan})
    /\ {AStale, COrphan} \subseteq zone
    /\ apiCalls = << <<"create", DOMAIN_BASE>>, <<"create", ssh_hostname>> >>
    /\ {DOMAIN_BASE, ssh_hostname} \subseteq ANames(zone)

\* C17: a pass whose extracted hostname list is empty does not change the
\* fingerprint file, even when every provider call of the pass succeeded.
C17_EmptyListKeepsFingerprint ==
    [][(ranSync /\ success /\ hostnames = <<>>) => fpFile' = fpFile]_vars

\* The proxy flag of a name of D: the root is proxied, the helper and the
\* names ending with -d.<base> are not, every other name is.
ProxyFlag(name) ==
    IF name = DOMAIN_BASE THEN TRUE
    ELSE IF name = ssh_hostname THEN FALSE
    ELSE ~endswith(name, <<"-d">> \o DotBase)

\* C18: when sync_dns_records has finished with every provider call
\* succeeded, every A-record of the zone whose name is in D holds the external
\* IP and the proxy flag of its name.
C18_ContentAndProxy ==
    (dpc = "exit" /\ success) =>
        \A r \in zone :
            (r.type = "A" /\ r.name \in Desired) =>
                (r.content = external_ip /\ r.proxied = ProxyFlag(r.name))

\* The current fingerprint differs from the persisted one, or one of the two
\* is not available.
FingerprintDiffers ==
    \/ fpFile = NoFile
    \/ ~doc.exists
    \/ get_traefik_checksum(doc) # fpFile

\* The first step of a tick.
TickStart == dpc = "idle" /\ ticks' = ticks + 1

\* C21: a tick runs a full pass iff the fingerprint differs (or is not
\* persisted, or cannot be computed) or the probe of the helper fails; it runs
\* at most one full pass; a tick with an unchanged fingerprint and a
\* successful probe runs no full pass and makes no provider call.
C21_FullPassIff ==
    [][/\ TickStart =>
            /\ (dpc' = "main") <=> (FingerprintDiffers \/ tickLog'.probe = "failed")
            /\ tickLog'.passes = (IF dpc' = "main" THEN 1 ELSE 0)
            /\ (~FingerprintDiffers /\ tickLog'.probe = "ok") =>
                   (dpc' = "idle" /\ apiCalls' = <<>> /\ zone' = zone)
       /\ ~TickStart => tickLog' = tickLog
       /\ tickLog'.passes <= 1
       /\ tickLog'.passes = 0 =>
            (dpc' = "idle" /\ ~ranSync' /\ apiCalls' = <<>> /\ zone' = zone)]_vars

\* A second tick that found the fingerprint unchanged and the helper
\* reachable.
C21_Witness ==
    /\ ticks = 2
    /\ tickLog = [probe |-> "ok", passes |-> 0]
    /\ fpFile = get_traefik_checksum(doc)
    /\ health = 2

\* C22: a tick writes the health timestamp only when its branch succeeded:
\* the fingerprint was unchanged and the probe succeeded, or the full pass it
\* ran made every provider call successfully; a tick whose pass had a failed
\* provider call leaves the health timestamp unchanged.
C22_HealthOnlyOnSuccess ==
    [][health' # health =>
          \/ tickLog'.probe = "ok"
          \/ ranSync /\ success /\ ~recordFailed]_vars

\* A pass that got as far as the per-record calls has returned.
PassReturned == dpc = "exit" /\ ranSync /\ (processed # {} \/ recordFailed)

\* C23: when a create, update or delete call fails for one record, the pass
\* still handles every remaining record of the desired set and the pruning
\* step, and its result is success iff no per-record call failed.
C23_FailureDoesNotAbort ==
    PassReturned =>
        /\ success <=> ~recordFailed
        /\ recordFailed =>
              /\ {DOMAIN_BASE, ssh_hostname} \subseteq processed
              /\ hi > Len(hostnames)
              /\ \A k \in 1..Len(hostnames) : lower(hostnames[k]) \in processed
              /\ hostnames # <<>> => pi > Len(snapshot)

\* C33: a hostname that occurs more than once in the extracted list (in the
\* same or in different letter case) is handled as if it occurred once: a
\* pass issues at most one create call and at most one update call for it.
C33_DuplicateHostnameOnce ==
    \A i, k \in 1..Len(apiCalls) : i < k => apiCalls[i] # apiCalls[k]

\* C34: after a pass in which every provider call succeeded, the next pass
\* over the same config file, with the same external IP and a zone nobody
\* else changed, issues no create, update or delete call.
C34_SecondPassNoCalls ==
    (cleanTick # 0 /\ ticks > cleanTick) => apiCalls = <<>>

\* Source {a, b} against a zone holding a (stale address) and c: the first
\* pass made its four calls successfully, the second pass, started by a failed
\* probe, went through every record and the pruning step without a call.
C34_Witness ==
    /\ cleanTick = 1 /\ ticks = 2
    /\ tickLog = [probe |-> "failed", passes |-> 1]
    /\ dpc = "exit" /\ success
    /\ hostnames = <<HostA, HostB>>
    /\ Cardinality(Range(snapshot)) = 4
    /\ hi > Len(hostnames) /\ pi > Len(snapshot)
    /\ apiCalls = <<>>

\* The names a pass must not delete: the root, the helper and the extracted
\* hostnames (as written and lower-cased).
Protected ==
    {DOMAIN_BASE, ssh_hostname} \cup Range(hostnames)
        \cup {lower(hostnames[i]) : i \in 1..Len(hostnames)}

\* C40: a pass never deletes (and never issues a delete call for) the root
\* record, the helper record ssh-3afb6505.<base>, a record named in the
\* extracted hostname list, a record that is not of type A, or a record whose
\* name does not end with .<base>.
C40_DeletesOnlyOrphans ==
    [][/\ \A r \in zone :
            (\A x \in zone' : x.id # r.id) =>
                /\ r.type = "A"
                /\ endswith(r.name, DotBase)
                /\ r.name \notin Protected
       /\ \A i \in 1..Len(apiCalls') :
            apiCalls'[i][1] = "delete" =>
                /\ endswith(apiCalls'[i][2], DotBase)
                /\ apiCalls'[i][2] \notin Protected'
                /\ \E r \in Range(snapshot') : r.type = "A" /\ r.name = apiCalls'[i][2]]_vars

\* Source {A.<base>, a-d.<base>, helper} against a zone holding the root, the
\* orphan c, a CNAME m and an A-record outside the base domain: the pass has
\* deleted c and nothing else.
C40_Witness ==
    /\ dpc = "exit" /\ success
    /\ hostnames = <<HostAUpper, HostD, ssh_hostname>>
    /\ snapshot = ById({RootOk, COrphan, MCname, Foreign})
    /\ <<"delete", HostC>> \in Range(apiCalls)
    /\ {RootOk, MCname, Foreign} \subseteq zone
    /\ COrphan \notin zone

====
